---- MODULE Spec2Model ----
(***************************************************************************)
(* A model of the Telegram bot of main.py: the three MongoDB collections,  *)
(* the handler table registered in main(), and the six handlers.  The      *)
(* Application runs with its default of sequential update processing, so   *)
(* every handler runs to completion before the next update is dispatched:  *)
(* one action per handler.  The order of the effects inside one handler    *)
(* run (database operations, HTTP and SDK calls, replies) is kept in       *)
(* `trace`.                                                                *)
(*                                                                         *)
(* A message's text is a sequence of whitespace separated tokens; chats    *)
(* are private chats, where message.chat_id = message.from_user.id.        *)
(***************************************************************************)
EXTENDS Naturals, Sequences, FiniteSets, TLC

VARIABLES
  users,          \* db['users']          (collection)
  chat_history,   \* db['chat_history']   (chat_history_collection)
  file_metadata,  \* db['file_metadata']  (file_metadata_collection)
  clock,          \* datetime.now(); one tick per dispatched update
  trace,          \* the effects of the latest handler run, in order
  last            \* the latest update, the handler it ran and how it ended

vars == <<users, chat_history, file_metadata, clock, trace, last>>

-----------------------------------------------------------------------------
(* Bounds *)

MaxEvents == 4      \* updates delivered in one behaviour

-----------------------------------------------------------------------------
(* Values *)

None == "None"      \* Python's None, and its str()

ChatIds == {1, 2}
Phones == {"+111", "+222"}

first_name_of(id) == IF id = 1 THEN "Ann" ELSE "Bob"
username_of(id) == IF id = 1 THEN "ann" ELSE "bob"

\* Tokens Telegram marks as a bot_command entity at offset 0.
CommandTokens == {"/start", "/cancel", "/websearch", "/help"}

\* The fixed texts of the handlers.
WELCOME == "Welcome to the User Registration Bot! Please share your phone number to continue."
BYE == "Bye! Hope to talk to you again soon."
APOLOGY_TEXT == "Sorry, I couldn't process your request right now. Please try again later."
APOLOGY_FILE == "Sorry, I couldn't analyze the file right now. Please try again later."
FILE_HEADER == "Here is what I found in the image:\n\n"
NO_RESULTS == "Sorry, I couldn't find relevant results for your query."
SEARCH_ERROR == "Sorry, I encountered an error while fetching search results."
USAGE == "Please provide a query to search for. Usage: /websearch <your_query>"
SUMMARY_HEADER == "Here is a summary for your query:\n\n"
NO_SNIPPET == "No summary available"
MORE_DETAILS == "For more details, check the full article here: "
THANKS(phone_number) ==
  "Thank you for sharing your phone number: " \o phone_number \o ". Registration complete!"

RECURSIVE Join(_, _)
\* sep.join(words)
Join(words, sep) ==
  IF words = <<>> THEN ""
  ELSE IF Len(words) = 1 THEN words[1]
  ELSE words[1] \o sep \o Join(Tail(words), sep)

-----------------------------------------------------------------------------
(* Updates: a message carries text, a contact, a photo or a document.      *)

TextMessage(id, tokens) ==
  [chat_id |-> id, text |-> tokens, contact |-> <<>>, photo |-> <<>>, document |-> <<>>]
ContactMessage(id, phone) ==
  [chat_id |-> id, text |-> <<>>, contact |-> <<[phone_number |-> phone]>>,
   photo |-> <<>>, document |-> <<>>]
\* photo: the sizes of one picture, the largest last
PhotoMessage(id) ==
  [chat_id |-> id, text |-> <<>>, contact |-> <<>>,
   photo |-> <<[file_id |-> "small"], [file_id |-> "large"]>>, document |-> <<>>]
DocumentMessage(id) ==
  [chat_id |-> id, text |-> <<>>, contact |-> <<>>, photo |-> <<>>,
   document |-> <<[file_id |-> "doc", file_name |-> "scan.png"]>>]

Texts == { <<"hi">>, <<"/start">>, <<"/cancel">>, <<"/websearch">>,
           <<"/websearch", "cats">>, <<"/help">> }

Updates ==
  {TextMessage(id, t) : id \in ChatIds, t \in Texts}
    \cup {ContactMessage(id, p) : id \in ChatIds, p \in Phones}
    \cup {PhotoMessage(id) : id \in ChatIds}
    \cup {DocumentMessage(id) : id \in ChatIds}

-----------------------------------------------------------------------------
(* The handler table of main(): filters, and first-match dispatch.         *)

\* CommandHandler(command, ...).check_update
CommandCheck(command, u) ==
  /\ u.text # <<>>
  /\ u.text[1] \in CommandTokens
  /\ u.text[1] = "/" \o command

FilterCONTACT(u) == u.contact # <<>>
FilterTEXT(u) == u.text # <<>>
FilterCOMMAND(u) == u.text # <<>> /\ u.text[1] \in CommandTokens
FilterPHOTO(u) == u.photo # <<>>

handlers ==
  << [kind |-> "command", arg |-> "start", callback |-> "start"],
     [kind |-> "CONTACT", arg |-> "", callback |-> "handle_contact"],
     [kind |-> "command", arg |-> "cancel", callback |-> "cancel"],
     [kind |-> "TEXT & ~COMMAND", arg |-> "", callback |-> "gemini_query"],
     [kind |-> "PHOTO", arg |-> "", callback |-> "handle_file"],
     [kind |-> "command", arg |-> "websearch", callback |-> "websearch"] >>

Matches(h, u) ==
  CASE h.kind = "command" -> CommandCheck(h.arg, u)
    [] h.kind = "CONTACT" -> FilterCONTACT(u)
    [] h.kind = "TEXT & ~COMMAND" -> FilterTEXT(u) /\ ~FilterCOMMAND(u)
    [] h.kind = "PHOTO" -> FilterPHOTO(u)

Matching(u) == {i \in DOMAIN handlers : Matches(handlers[i], u)}

\* Application.process_update: within the one handler group, the first handler
\* whose check accepts the update runs, and no other.
Route(u) ==
  IF Matching(u) = {} THEN "none"
  ELSE handlers[CHOOSE i \in Matching(u) : \A j \in Matching(u) : i <= j].callback

-----------------------------------------------------------------------------
(* The world a handler run works on, and the effects it leaves in trace.   *)

World ==
  [users |-> users, chat_history |-> chat_history,
   file_metadata |-> file_metadata, trace |-> <<>>]

Effect(w, op, arg, ok) ==
  [w EXCEPT !.trace = Append(@, [op |-> op, arg |-> arg, ok |-> ok])]

\* update.message.reply_text(text)
reply_text(w, text) == Effect(w, "reply_text", text, TRUE)

\* collection.find_one({"chat_id": id}): the first match, <<>> for None
find_one(coll, id) ==
  LET hits == {i \in DOMAIN coll : coll[i].chat_id = id}
  IN IF hits = {} THEN <<>>
     ELSE << coll[CHOOSE i \in hits : \A j \in hits : i <= j] >>

\* Mutant: update_one(..., upsert=True), which creates the record it did not find.
update_one_upsert(coll, id, phone) ==
  LET hits == {i \in DOMAIN coll : coll[i].chat_id = id}
  IN IF hits = {} THEN Append(coll, [chat_id |-> id, phone_number |-> phone])
     ELSE LET first == CHOOSE i \in hits : \A j \in hits : i <= j
          IN [coll EXCEPT ![first].phone_number = phone]

\* Mutant: update_many({}, ...), a filter that selects every record.
update_one_every_user(coll, id, phone) ==
  [i \in DOMAIN coll |-> [coll[i] EXCEPT !.phone_number = phone]]

\* collection.update_one({"chat_id": id}, {"$set": {"phone_number": phone}})
update_one(coll, id, phone) ==
  LET hits == {i \in DOMAIN coll : coll[i].chat_id = id}
  IN IF hits = {} THEN coll
     ELSE LET first == CHOOSE i \in hits : \A j \in hits : i <= j
          IN [coll EXCEPT ![first].phone_number = phone]

\* Mutant: the insert without the find_one check before it.
register_user_unchecked(w, user_id, first_name, username) ==
  LET user_data == [chat_id |-> user_id, first_name |-> first_name,
                    username |-> username, phone_number |-> None]
  IN Effect([w EXCEPT !.users = Append(@, user_data)],
            "users.insert_one", user_data, TRUE)

register_user(w, user_id, first_name, username) ==
  IF find_one(w.users, user_id) = <<>>
  THEN LET user_data == [chat_id |-> user_id, first_name |-> first_name,
                         username |-> username, phone_number |-> None]
       IN Effect([w EXCEPT !.users = Append(@, user_data)],
                 "users.insert_one", user_data, TRUE)
  ELSE w

\* dict.get(key, default)
Get(d, key, default) == IF key \in DOMAIN d THEN d[key] ELSE default

\* What the collaborators answered in a handler run: the step that raised (if
\* any), the text the model generated, the search provider's HTTP response.
NoResponse == [status_code |-> 0, json |-> [organic_results |-> <<>>]]
NoEnv == [fault |-> "none", generated |-> "", response |-> NoResponse]

\* The handler run ends: its writes and effects become the state.
Finish(w, handler, u, env, raised) ==
  /\ clock < MaxEvents
  /\ clock' = clock + 1
  /\ users' = w.users
  /\ chat_history' = w.chat_history
  /\ file_metadata' = w.file_metadata
  /\ trace' = w.trace
  /\ last' = [handler |-> handler, update |-> u, env |-> env, raised |-> raised]

-----------------------------------------------------------------------------
(* Handlers *)

\* Mutant: the prompt is sent first, the user registered after it.
start_prompt_first(u) ==
  LET w1 == Effect(World, "reply_text+contact_keyboard", WELCOME, TRUE)
      w2 == register_user(w1, u.chat_id, first_name_of(u.chat_id),
                          username_of(u.chat_id))
  IN Finish(w2, "start", u, NoEnv, FALSE)

start(u) ==
  LET w1 == register_user(World, u.chat_id, first_name_of(u.chat_id),
                          username_of(u.chat_id))
      w2 == Effect(w1, "reply_text+contact_keyboard", WELCOME, TRUE)
  IN Finish(w2, "start", u, NoEnv, FALSE)

handle_contact(u) ==
  LET phone_number == u.contact[1].phone_number
      w1 == Effect([World EXCEPT !.users = update_one(@, u.chat_id, phone_number)],
                   "users.update_one", phone_number, TRUE)
      w2 == reply_text(w1, THANKS(phone_number))
  IN Finish(w2, "handle_contact", u, NoEnv, FALSE)

cancel(u) ==
  Finish(Effect(World, "reply_text+remove_keyboard", BYE, TRUE),
         "cancel", u, NoEnv, FALSE)

\* A run of gemini_query raises in at most one of its steps: the Gemini call
\* ("ai"), the insert ("db") or the reply ("send").  Every one of them is
\* inside the try block; the reply of the except block is delivered.
GeminiFaults == {"none", "ai", "db", "send"}
Generated == {"pong"}

\* Mutant: the conversation is stored in a finally clause, whatever happened.
gemini_query_always_logs(u, fault, bot_response) ==
  LET user_input == Join(u.text, " ")
      doc == [chat_id |-> u.chat_id, user_input |-> user_input,
              bot_response |-> IF fault = "ai" THEN "" ELSE bot_response,
              timestamp |-> clock]
      w1 == Effect(World, "chat.send_message", user_input, fault # "ai")
      w2 == IF fault = "ai" THEN reply_text(w1, APOLOGY_TEXT)
            ELSE Effect(w1, "reply_text", bot_response, TRUE)
      w3 == Effect([w2 EXCEPT !.chat_history = Append(@, doc)],
                   "chat_history.insert_one", doc, TRUE)
  IN Finish(w3, "gemini_query", u,
            [NoEnv EXCEPT !.fault = fault, !.generated = bot_response], FALSE)

gemini_query(u, fault, bot_response) ==
  LET user_input == Join(u.text, " ")
      chat_id == u.chat_id
      except(w) == reply_text(w, APOLOGY_TEXT)
      w1 == Effect(World, "chat.send_message", user_input, fault # "ai")
      chat_history_doc == [chat_id |-> chat_id, user_input |-> user_input,
                           bot_response |-> bot_response, timestamp |-> clock]
      w2 == IF fault = "db"
            THEN Effect(w1, "chat_history.insert_one", chat_history_doc, FALSE)
            ELSE Effect([w1 EXCEPT !.chat_history = Append(@, chat_history_doc)],
                        "chat_history.insert_one", chat_history_doc, TRUE)
      w3 == Effect(w2, "reply_text", bot_response, fault # "send")
      w == CASE fault = "ai" -> except(w1)
             [] fault = "db" -> except(w2)
             [] fault = "send" -> except(w3)
             [] OTHER -> w3
  IN Finish(w, "gemini_query", u,
            [NoEnv EXCEPT !.fault = fault, !.generated = bot_response], FALSE)

\* A run of handle_file raises in at most one of its steps.  get_file, the
\* download and Image.open come before the try block: an exception there leaves
\* the handler.  generate_content, the insert and the reply are inside it.
FileFaults == {"none", "get_file", "download", "decode", "vision", "db", "send"}
Descriptions == {"a cat"}
PROMPT == "Analyse this image and generate response"

handle_file(u, fault, description) ==
  LET file == IF u.document # <<>> THEN u.document[1] ELSE u.photo[Len(u.photo)]
      file_id == file.file_id
      w1 == Effect(World, "bot.get_file", file_id, fault # "get_file")
      file_name == IF "file_name" \in DOMAIN file THEN file.file_name
                   ELSE "image_" \o file_id \o ".jpg"
      w2 == Effect(w1, "download_as_bytearray", file_id, fault # "download")
      w3 == Effect(w2, "Image.open", file_id, fault # "decode")
      except(w) == reply_text(w, APOLOGY_FILE)
      w4 == Effect(w3, "generate_content", PROMPT, fault # "vision")
      file_metadata_doc == [file_id |-> file_id, file_name |-> file_name,
                            description |-> description, timestamp |-> clock]
      w5 == IF fault = "db"
            THEN Effect(w4, "file_metadata.insert_one", file_metadata_doc, FALSE)
            ELSE Effect([w4 EXCEPT !.file_metadata = Append(@, file_metadata_doc)],
                        "file_metadata.insert_one", file_metadata_doc, TRUE)
      w6 == Effect(w5, "reply_text", FILE_HEADER \o description, fault # "send")
      env == [NoEnv EXCEPT !.fault = fault, !.generated = description]
  IN CASE fault = "get_file" -> Finish(w1, "handle_file", u, env, TRUE)
       [] fault = "download" -> Finish(w2, "handle_file", u, env, TRUE)
       [] fault = "decode" -> Finish(w3, "handle_file", u, env, TRUE)
       [] fault = "vision" -> Finish(except(w4), "handle_file", u, env, FALSE)
       [] fault = "db" -> Finish(except(w5), "handle_file", u, env, FALSE)
       [] fault = "send" -> Finish(except(w6), "handle_file", u, env, FALSE)
       [] OTHER -> Finish(w6, "handle_file", u, env, FALSE)

\* The search provider's answers: a status code and, for 200, the JSON body.
FullResult == [snippet |-> "S", link |-> "L"]
OtherResult == [snippet |-> "S2", link |-> "L2"]
BareResult == [link |-> "L3"]
Responses ==
  { [status_code |-> 200, json |-> [organic_results |-> <<>>]],
    [status_code |-> 200, json |-> [search_metadata |-> "ok"]],
    [status_code |-> 200, json |-> [organic_results |-> <<FullResult, OtherResult>>]],
    [status_code |-> 200, json |-> [organic_results |-> <<BareResult>>]],
    [status_code |-> 404, json |-> [organic_results |-> <<FullResult>>]] }

\* the text web_search makes of the first result
Summary(top_result) ==
  SUMMARY_HEADER \o Get(top_result, "snippet", NO_SNIPPET) \o "...\n\n"
    \o MORE_DETAILS \o Get(top_result, "link", None)

\* Mutant: the body is read whatever the status code.
web_search_any_status(w, query, chat_id, response) ==
  LET w1 == Effect(w, "requests.get", query, TRUE)
      results == Get(response.json, "organic_results", <<>>)
  IN IF results = <<>>
     THEN [w |-> w1, ret |-> NO_RESULTS]
     ELSE LET summary == Summary(results[1])
              websearch_history == [chat_id |-> chat_id, query |-> query,
                                    summary |-> summary, timestamp |-> clock]
          IN [w |-> Effect([w1 EXCEPT !.chat_history = Append(@, websearch_history)],
                           "chat_history.insert_one", websearch_history, TRUE),
              ret |-> summary]

\* web_search: the world after the call, and the returned text
web_search(w, query, chat_id, response) ==
  LET w1 == Effect(w, "requests.get", query, TRUE)
  IN IF response.status_code = 200
     THEN LET results == Get(response.json, "organic_results", <<>>)
          IN IF results = <<>>
             THEN [w |-> w1, ret |-> NO_RESULTS]
             ELSE LET top_result == results[1]
                      summary == Summary(top_result)
                      websearch_history ==
                        [chat_id |-> chat_id, query |-> query,
                         summary |-> summary, timestamp |-> clock]
                  IN [w |-> Effect([w1 EXCEPT !.chat_history =
                                               Append(@, websearch_history)],
                                   "chat_history.insert_one", websearch_history, TRUE),
                      ret |-> summary]
     ELSE [w |-> w1, ret |-> SEARCH_ERROR]

\* Mutant: the usage hint is sent, but the return after it is missing.
websearch_no_return(u, response) ==
  LET user_input == Join(Tail(u.text), " ")
      w0 == IF user_input = "" THEN reply_text(World, USAGE) ELSE World
      search_results == web_search(w0, user_input, u.chat_id, response)
  IN Finish(reply_text(search_results.w, search_results.ret), "websearch", u,
            [NoEnv EXCEPT !.response = response], FALSE)

websearch(u, response) ==
  LET chat_id == u.chat_id
      user_input == Join(Tail(u.text), " ")
  IN IF user_input = ""
     THEN Finish(reply_text(World, USAGE), "websearch", u, NoEnv, FALSE)
     ELSE LET search_results == web_search(World, user_input, chat_id, response)
          IN Finish(reply_text(search_results.w, search_results.ret), "websearch", u,
                    [NoEnv EXCEPT !.response = response], FALSE)

\* No handler accepts the update: nothing runs, nothing is sent.
Unhandled(u) == Finish(World, "none", u, NoEnv, FALSE)

-----------------------------------------------------------------------------

Init ==
  /\ users = <<>>
  /\ chat_history = <<>>
  /\ file_metadata = <<>>
  /\ clock = 0
  /\ trace = <<>>
  /\ last = [handler |-> "init", update |-> TextMessage(1, <<"hi">>),
             env |-> NoEnv, raised |-> FALSE]

\* The updates the handler table hands to each callback ("none": to no one).
Routed ==
  [h \in {handlers[i].callback : i \in DOMAIN handlers} \cup {"none"} |->
     {u \in Updates : Route(u) = h}]

Next ==
  \/ \E u \in Routed["start"] : start(u)
  \/ \E u \in Routed["handle_contact"] : handle_contact(u)
  \/ \E u \in Routed["cancel"] : cancel(u)
  \/ \E u \in Routed["gemini_query"], fault \in GeminiFaults, bot_response \in Generated :
       gemini_query(u, fault, bot_response)
  \/ \E u \in Routed["handle_file"], fault \in FileFaults, description \in Descriptions :
       handle_file(u, fault, description)
  \/ \E u \in Routed["websearch"], response \in Responses : websearch(u, response)
  \/ \E u \in Routed["none"] : Unhandled(u)

Spec == Init /\ [][Next]_vars

-----------------------------------------------------------------------------
(* What a handler run left behind, read from trace and last.               *)

Delivered(e) ==
  /\ e.ok
  /\ e.op \in {"reply_text", "reply_text+contact_keyboard", "reply_text+remove_keyboard"}

\* the texts the chat received in the run, in order
Sent(tr) ==
  LET R == SelectSeq(tr, Delivered) IN [i \in 1..Len(R) |-> R[i].arg]

\* the positions of the calls of one kind in the run
Calls(tr, op) == {i \in DOMAIN tr : tr[i].op = op}

RecordsOf(coll, id) == {i \in DOMAIN coll : coll[i].chat_id = id}
Registered(coll, id) == find_one(coll, id) # <<>>
PhoneOf(coll, id) == find_one(coll, id)[1].phone_number

-----------------------------------------------------------------------------
(* C1: after any sequence of events the user store holds at most one       *)
(* record per chat identifier, and register_user for a chat identifier     *)
(* that already has a record leaves the user store as it is.               *)
C1_OneRecordPerChat ==
  /\ \A id \in ChatIds : Cardinality(RecordsOf(users, id)) <= 1
  /\ \A id \in ChatIds :
       Registered(users, id) =>
         register_user(World, id, first_name_of(id), username_of(id)).users = users

\* /start ran for a chat that was registered, with both chats in the store
C1_Witness ==
  /\ last.handler = "start"
  /\ Calls(trace, "users.insert_one") = {}
  /\ Len(users) = 2

(* C2: when the Gemini call of gemini_query raises, the chat receives      *)
(* exactly the fixed apology and the conversation log is left unchanged.   *)
C2_AiFailureApology ==
  [][ (last'.handler = "gemini_query" /\ last'.env.fault = "ai") =>
        /\ Sent(trace') =
             <<"Sorry, I couldn't process your request right now. Please try again later.">>
        /\ chat_history' = chat_history ]_vars

C2_Witness ==
  /\ last.handler = "gemini_query"
  /\ last.env.fault = "ai"
  /\ chat_history # <<>>

(* C3: every run of gemini_query ends either with one conversation record  *)
(* persisted and then the output sent, or with the apology sent and        *)
(* nothing persisted, whichever step (Gemini call, insert, reply) raised.  *)
C3_TextRunOutcome ==
  [][ last'.handler = "gemini_query" =>
        LET u == last'.update
            doc == [chat_id |-> u.chat_id, user_input |-> Join(u.text, " "),
                    bot_response |-> last'.env.generated, timestamp |-> clock]
            success ==
              /\ chat_history' = Append(chat_history, doc)
              /\ Sent(trace') = <<last'.env.generated>>
              /\ \A i \in Calls(trace', "chat_history.insert_one") :
                   \A j \in Calls(trace', "reply_text") : i < j
            failure ==
              /\ chat_history' = chat_history
              /\ Sent(trace') = <<APOLOGY_TEXT>>
        IN (success \/ failure) /\ ~(success /\ failure) ]_vars

(* C4: every run of handle_file ends either with one file metadata record  *)
(* persisted and the description sent under the fixed header, or with the  *)
(* apology sent and nothing persisted, whichever step (get_file, download, *)
(* decoding, vision call, insert) raised.                                  *)
C4_FileRunOutcome ==
  [][ last'.handler = "handle_file" =>
        LET success ==
              /\ Len(file_metadata') = Len(file_metadata) + 1
              /\ Sent(trace') = <<FILE_HEADER \o last'.env.generated>>
            failure ==
              /\ file_metadata' = file_metadata
              /\ Sent(trace') = <<APOLOGY_FILE>>
        IN (success \/ failure) /\ ~(success /\ failure) ]_vars

(* C5: web_search appends a conversation record exactly when the provider  *)
(* answers 200 with a non-empty organic_results list: then one record,     *)
(* under the calling chat identifier, holding the returned text, which is  *)
(* the first result's snippet followed by the link line.  200 with an      *)
(* empty list returns the no-results text, any other status the generic    *)
(* error text, and both leave the log unchanged.                           *)
C5_WebSearchContract ==
  \A id \in ChatIds, query \in {"cats", "cats and dogs"}, response \in Responses :
    LET r == web_search(World, query, id, response)
        results == Get(response.json, "organic_results", <<>>)
        found == response.status_code = 200 /\ results # <<>>
    IN /\ found =>
            /\ r.w.chat_history =
                 Append(chat_history, [chat_id |-> id, query |-> query,
                                       summary |-> r.ret, timestamp |-> clock])
            /\ DOMAIN results[1] = {"snippet", "link"} =>
                 r.ret = "Here is a summary for your query:\n\n" \o results[1].snippet
                           \o "...\n\n"
                           \o "For more details, check the full article here: "
                           \o results[1].link
       /\ ~found => r.w.chat_history = chat_history
       /\ (response.status_code = 200 /\ results = <<>>) =>
            r.ret = "Sorry, I couldn't find relevant results for your query."
       /\ response.status_code # 200 =>
            r.ret = "Sorry, I encountered an error while fetching search results."

\* /websearch ran on a 200 answer with results and its record is in the log
C5_Witness ==
  /\ last.handler = "websearch"
  /\ last.env.response.status_code = 200
  /\ Get(last.env.response.json, "organic_results", <<>>) # <<>>
  /\ chat_history # <<>>
  /\ chat_history[Len(chat_history)].chat_id = last.update.chat_id
  /\ Sent(trace) = <<Summary(FullResult)>>

(* C6: /websearch without argument text sends the usage hint and stops:    *)
(* no HTTP call, no conversation record, no second reply.  With argument   *)
(* text, one search call is made and its returned text is sent verbatim.   *)
C6_WebsearchArguments ==
  [][ last'.handler = "websearch" =>
        LET u == last'.update
        IN IF Len(u.text) = 1
           THEN /\ Sent(trace') =
                     <<"Please provide a query to search for. Usage: /websearch <your_query>">>
                /\ Calls(trace', "requests.get") = {}
                /\ chat_history' = chat_history
           ELSE /\ Cardinality(Calls(trace', "requests.get")) = 1
                /\ Sent(trace') =
                     <<web_search(World, Join(Tail(u.text), " "), u.chat_id,
                                  last'.env.response).ret>> ]_vars

\* /websearch without arguments ran while the log held records
C6_Witness ==
  /\ last.handler = "websearch"
  /\ Len(last.update.text) = 1
  /\ chat_history # <<>>

(* C7: /start from a chat identifier without a user record inserts one     *)
(* record for it with phone number None, before the contact prompt is      *)
(* sent; /start from a registered identifier inserts nothing, leaves the   *)
(* stored phone number as it was, and still sends the contact prompt.      *)
C7_StartRegisters ==
  [][ last'.handler = "start" =>
        LET id == last'.update.chat_id
            prompt == Calls(trace', "reply_text+contact_keyboard")
        IN /\ Cardinality(prompt) = 1
           /\ Sent(trace') =
                <<"Welcome to the User Registration Bot! Please share your phone number to continue.">>
           /\ IF ~Registered(users, id)
              THEN /\ users' = Append(users, [chat_id |-> id,
                                              first_name |-> first_name_of(id),
                                              username |-> username_of(id),
                                              phone_number |-> None])
                   /\ Cardinality(Calls(trace', "users.insert_one")) = 1
                   /\ \A i \in Calls(trace', "users.insert_one") :
                        \A j \in prompt : i < j
              ELSE /\ users' = users
                   /\ Calls(trace', "users.insert_one") = {}
                   /\ PhoneOf(users', id) = PhoneOf(users, id) ]_vars

\* /start registered a new chat while another chat's record was in the store
C7_Witness ==
  /\ last.handler = "start"
  /\ Calls(trace, "users.insert_one") # {}
  /\ Len(users) = 2
  /\ users[2].chat_id = last.update.chat_id
  /\ users[2].phone_number = None

(* C8: a contact share from a chat identifier without a user record        *)
(* changes no record and creates none, raises no error, and the handler    *)
(* still sends the fixed confirmation text.                                *)
C8_ContactWithoutRecord ==
  [][ (last'.handler = "handle_contact" /\ ~Registered(users, last'.update.chat_id)) =>
        /\ users' = users
        /\ ~last'.raised
        /\ Sent(trace') =
             <<"Thank you for sharing your phone number: "
                 \o last'.update.contact[1].phone_number
                 \o ". Registration complete!">> ]_vars

\* a contact share from an unregistered chat, with the other chat registered
C8_Witness ==
  /\ last.handler = "handle_contact"
  /\ ~Registered(users, last.update.chat_id)
  /\ users # <<>>

(* C9 as stated: once a contact share has set a record's phone number, no  *)
(* later event changes it, and user records are never deleted.             *)
C9_PhoneSetOnce ==
  [][ \A id \in ChatIds :
        (Registered(users, id) /\ PhoneOf(users, id) # None) =>
          /\ Registered(users', id)
          /\ PhoneOf(users', id) = PhoneOf(users, id) ]_vars

(* C9 amended: user records are never deleted and a phone number that has  *)
(* been set is never unset; it changes only by a later contact share from  *)
(* the same chat identifier, which overwrites it with the number shared.   *)
(* /start and every other event leave it as it was.                        *)
C9_PhoneOnlyByOwnContact ==
  [][ \A id \in ChatIds :
        Registered(users, id) =>
          /\ Registered(users', id)
          /\ PhoneOf(users, id) # None => PhoneOf(users', id) # None
          /\ PhoneOf(users', id) # PhoneOf(users, id) =>
               /\ last'.handler = "handle_contact"
               /\ last'.update.chat_id = id
               /\ PhoneOf(users', id) = last'.update.contact[1].phone_number ]_vars

\* a later /start from a chat whose phone number had been set
C9_Witness ==
  /\ last.handler = "start"
  /\ Registered(users, last.update.chat_id)
  /\ PhoneOf(users, last.update.chat_id) # None

(* C10: every delivered event is routed to at most one handler, by its     *)
(* shape; no shape matches two handlers, a command never reaches           *)
(* gemini_query, and every shape the transport delivers (the commands of   *)
(* the command surface, contact shares, text, photo and document           *)
(* messages) reaches a handler.                                            *)
C10_Routing ==
  last.handler # "init" =>
    LET u == last.update
        command == u.text # <<>> /\ u.text[1] \in CommandTokens
        expected ==
          CASE u.contact # <<>> -> "handle_contact"
            [] u.photo # <<>> -> "handle_file"
            [] u.document # <<>> -> "handle_file"
            [] command /\ u.text[1] = "/start" -> "start"
            [] command /\ u.text[1] = "/cancel" -> "cancel"
            [] command /\ u.text[1] = "/websearch" -> "websearch"
            [] command -> last.handler
            [] OTHER -> "gemini_query"
    IN /\ Cardinality(Matching(u)) <= 1
       /\ command => last.handler # "gemini_query"
       /\ last.handler = expected

====
